---- MODULE Spec2Model ----
(***************************************************************************)
(* EmojiLikeArbiter: a stateless, weakly consistent election between bot   *)
(* processes that react to the same message.  The only shared medium is    *)
(* the emoji-like list of the message (set_msg_emoji_like /                *)
(* fetch_emoji_like).  Two implementations exist: the full variant with    *)
(* deterministic backup (core/arbiter.py) and the reduced variant          *)
(* (core/limit/arbiter.py).                                                *)
(*                                                                         *)
(* One step of the model is one await of the code: the model takes the     *)
(* step when the awaited call (or sleep) completes and runs the code up    *)
(* to the next await.                                                      *)
(***************************************************************************)
EXTENDS Integers, Sequences, FiniteSets, TLC

\* ------------------------------------------------------------------ bounds
\* longest emojiLikesList a fetch_emoji_like response carries
MaxResp == 3
\* the pure-function driver feeds lists up to this length
MaxUsers == 3

\* ------------------------------------------------------- protocol constants
EMOJI_ID == 289
FEEDBACK_EMOJI_ID == 124
TIME_SLICE == 60
\* wait windows, in tenths of a second
WAIT_SEC == 10
FEEDBACK_WAIT_SEC == 7
\* a reduced variant that claims with the emoji of the full variant
LIMIT_EMOJI_ID_OF_FULL == EMOJI_ID

LIMIT_EMOJI_ID == 282
LIMIT_TIME_SLICE == 60
LIMIT_WAIT_SEC == 15

\* ------------------------------------------------------------- environment
\* the competing bot processes and their tinyIds
Procs == {1, 2}
SelfId == [p \in Procs |-> 10 * p]
\* tinyIds of participants outside the model (other bots, human users: the
\* fetched list does not tell them apart); they may put a primary emoji on
\* the message at any time and are not followed further
Others == {30}
Ids == {SelfId[p] : p \in Procs} \cup Others
Kinds == {EMOJI_ID, FEEDBACK_EMOJI_ID, LIMIT_EMOJI_ID}
\* the emoji an outside participant may hold: the two participant lists
OtherKinds == {EMOJI_ID, LIMIT_EMOJI_ID}
\* server timestamps of the message under arbitration
MsgTimes == {0, 60, 125}
\* inputs of the function driver
FnIds == {10, 20, 30}
FnTimes == {-1, 0, 59, 60, 125}

VARIABLES
  likes,      \* likes[k]: tinyIds that hold emoji k on the message (server side)
  variant,    \* variant[p]: "full" or "limit", the implementation p runs
  badEvent,   \* badEvent[p]: compete of p was entered with a malformed event
  msgTime,    \* raw_message.time of the message, the same for every process
  pc,         \* pc[p]: the await p is suspended at
  order,      \* order[p]: local `order` of compete (full variant)
  pos,        \* pos[p]: 1-based index of the for loop over `order`, 0 outside it
  result,     \* result[p]: "none" while running, then "win" / "lose", or
              \* "raise" when compete ended with an exception
  collected,  \* collected[p]: set(users) of the phase-4 fetch, {} before it
  log,        \* log[p]: the channel calls and sleeps p has completed, in order
  raised,     \* raised[p]: p's latest await was a fetch_emoji_like call that raised
  fresh,      \* FALSE once some fetch returned less than the server-side list
  fnUsers,    \* function driver: a fetched list of tinyIds
  fnUsers2,   \* function driver: a second fetched list
  fnTime,     \* function driver: msg_time
  fnSelf,     \* function driver: self_id
  fnCalls,    \* function driver: the functions called so far
  fnOrder,    \* function driver: _decide_order(fnUsers, fnTime)
  fnOrder2,   \* function driver: _decide_order(fnUsers2, fnTime)
  fnWin,      \* function driver: _decide(fnUsers, fnSelf, fnTime)
  fnWin2,     \* function driver: _decide(fnUsers2, fnSelf, fnTime)
  fnVerdict   \* function driver: what the reduced compete returns on collecting fnUsers

procVars == <<likes, variant, badEvent, msgTime, pc, order, pos, result, collected, log, raised, fresh>>
fnVars == <<fnUsers, fnUsers2, fnTime, fnSelf, fnCalls, fnOrder, fnOrder2, fnWin, fnWin2,
            fnVerdict>>
vars == <<likes, variant, badEvent, msgTime, pc, order, pos, result, collected, log, raised, fresh,
          fnUsers, fnUsers2, fnTime, fnSelf, fnCalls, fnOrder, fnOrder2, fnWin, fnWin2,
          fnVerdict>>

\* ------------------------------------------------------------- sequences
Range(s) == {s[i] : i \in 1..Len(s)}

Lists(S, n) == UNION {[1..m -> S] : m \in 0..n}

Min(S) == CHOOSE x \in S : \A y \in S : x <= y

RECURSIVE Sorted(_)
\* sorted(set(users)) given the set
Sorted(S) ==
  IF S = {} THEN <<>> ELSE <<Min(S)>> \o Sorted(S \ {Min(S)})

\* ------------------------------------------------- fetch_emoji_like responses
\* an item of emojiLikesList: <<"ok", n>> when int(item["tinyId"]) gives n,
\* <<"bad", 0>> when the lookup or the conversion raises
BadItem == <<"bad", 0>>
Items(holders) == {<<"ok", n>> : n \in holders} \cup {BadItem}

\* what fetch_emoji_like may answer while `holders` hold the emoji: it raises,
\* returns None, returns a mapping without emojiLikesList, or returns a list
\* of items about current holders (possibly a stale part of them, in any
\* order, with repetitions)
Responses(holders) ==
  {[status |-> s, list |-> <<>>] : s \in {"err", "null", "nolist"}}
    \cup {[status |-> "ok", list |-> l] : l \in Lists(Items(holders), MaxResp)}

RECURSIVE ParseItems(_)
ParseItems(items) ==
  IF items = <<>> THEN <<>>
  ELSE IF Head(items)[1] = "ok"
       THEN <<Head(items)[2]>> \o ParseItems(Tail(items))
       ELSE ParseItems(Tail(items))

\* the tinyIds a response names
Named(resp) == {it[2] : it \in {x \in Range(resp.list) : x[1] = "ok"}}

\* ------------------------------------------------------ full variant, helpers
\* _fetch_users whose except branch returns a placeholder entry instead of []
FetchUsersErrEntry(resp) ==
  IF resp.status = "err" THEN <<0>>
  ELSE IF resp.status \in {"null", "nolist"} THEN <<>>
  ELSE ParseItems(resp.list)

\* _fetch_users: a raising call gives [], a missing list gives [], items whose
\* tinyId cannot be read are skipped
FetchUsers(resp) ==
  IF resp.status = "err" THEN <<>>
  ELSE IF resp.status \in {"null", "nolist"} THEN <<>>
  ELSE ParseItems(resp.list)

\* _has_feedback
HasFeedback(resp) == FetchUsers(resp) # <<>>

RECURSIVE Dedup(_)
\* the distinct entries of a list in the order of their first occurrence
Dedup(users) ==
  IF users = <<>> THEN <<>>
  ELSE LET rest == Dedup(SelectSeq(Tail(users), LAMBDA u : u # Head(users)))
       IN <<Head(users)>> \o rest

\* _decide_order without the time slice: base = msg_time % n
DecideOrderNoSlice(users, msg_time) ==
  LET participants == Sorted(Range(users))
      n == Len(participants)
  IN IF n = 0 THEN <<>>
     ELSE LET base == msg_time % n
          IN [i \in 1..n |-> participants[((base + (i - 1)) % n) + 1]]

\* _decide_order without sorted(): the participants stay in fetch order
DecideOrderUnsorted(users, msg_time) ==
  LET participants == Dedup(users)
      n == Len(participants)
  IN IF n = 0 THEN <<>>
     ELSE LET base == (msg_time \div TIME_SLICE) % n
          IN [i \in 1..n |-> participants[((base + (i - 1)) % n) + 1]]

\* _decide_order
DecideOrder(users, msg_time) ==
  LET participants == Sorted(Range(users))
      n == Len(participants)
  IN IF n = 0 THEN <<>>
     ELSE LET base == (msg_time \div TIME_SLICE) % n
          IN [i \in 1..n |-> participants[((base + (i - 1)) % n) + 1]]

Verdict(b) == IF b THEN "win" ELSE "lose"

\* compete that claims whatever the phase-1 fetch returned
AfterPrecheckAlwaysClaim(users) ==
  [pc |-> "claim", result |-> "none"]

\* where compete goes after the phase-1 fetch
AfterPrecheck(users) ==
  IF users # <<>>
  THEN [pc |-> "done", result |-> "lose"]
  ELSE [pc |-> "claim", result |-> "none"]

\* compete that swallows the error of the claim as it does for the feedback
AfterClaimSwallow(failed) ==
  [pc |-> "wait", result |-> "none"]

\* compete that tries the claim again when it raises
AfterClaimRetry(failed) ==
  IF failed
  THEN [pc |-> "claim", result |-> "none"]
  ELSE [pc |-> "wait", result |-> "none"]

\* where compete goes after the phase-2 set_msg_emoji_like
AfterClaim(failed) ==
  IF failed
  THEN [pc |-> "done", result |-> "lose"]
  ELSE [pc |-> "wait", result |-> "none"]

\* a loop that writes the feedback at every position
LoopEntryAlwaysWrite(ord, i, self_id) == "fbset"

\* the body of the for loop up to its first await, for the candidate at i
LoopEntry(ord, i, self_id) ==
  IF ord[i] = self_id THEN "fbset" ELSE "fbwait"

\* compete that gives up when the phase-4 fetch is empty
AfterCollectEmptyLoses(users, ord, self_id) ==
  IF users = <<>> THEN [pc |-> "done", result |-> "lose", pos |-> 0]
  ELSE IF ord = <<>> THEN [pc |-> "done", result |-> "lose", pos |-> 0]
  ELSE IF Len(ord) = 1
       THEN [pc |-> "done", result |-> Verdict(ord[1] = self_id), pos |-> 0]
       ELSE [pc |-> LoopEntry(ord, 1, self_id), result |-> "none", pos |-> 1]

\* compete without the single-participant fast path
AfterCollectNoFastPath(users, ord, self_id) ==
  IF users = <<>> THEN [pc |-> "done", result |-> "win", pos |-> 0]
  ELSE IF ord = <<>> THEN [pc |-> "done", result |-> "lose", pos |-> 0]
  ELSE [pc |-> LoopEntry(ord, 1, self_id), result |-> "none", pos |-> 1]

\* compete whose first-ranked candidate wins without waiting for feedback
AfterCollectLeaderWins(users, ord, self_id) ==
  IF users = <<>> THEN [pc |-> "done", result |-> "win", pos |-> 0]
  ELSE IF ord = <<>> THEN [pc |-> "done", result |-> "lose", pos |-> 0]
  ELSE IF Len(ord) = 1 \/ ord[1] = self_id
       THEN [pc |-> "done", result |-> Verdict(ord[1] = self_id), pos |-> 0]
       ELSE [pc |-> LoopEntry(ord, 1, self_id), result |-> "none", pos |-> 1]

\* where compete goes after the phase-4 fetch: phase 5 and the fast path
AfterCollect(users, ord, self_id) ==
  IF users = <<>> THEN [pc |-> "done", result |-> "win", pos |-> 0]
  ELSE IF ord = <<>> THEN [pc |-> "done", result |-> "lose", pos |-> 0]
  ELSE IF Len(ord) = 1
       THEN [pc |-> "done", result |-> Verdict(ord[1] = self_id), pos |-> 0]
       ELSE [pc |-> LoopEntry(ord, 1, self_id), result |-> "none", pos |-> 1]

\* compete that returns True to whoever observes the feedback
AfterFeedbackObserverWins(seen, ord, i, self_id) ==
  IF seen THEN [pc |-> "done", result |-> "win", pos |-> i]
  ELSE IF i = Len(ord) THEN [pc |-> "done", result |-> "lose", pos |-> i]
  ELSE [pc |-> LoopEntry(ord, i + 1, self_id), result |-> "none", pos |-> i + 1]

\* compete that returns only at its own position and walks on otherwise
AfterFeedbackOwnOnly(seen, ord, i, self_id) ==
  IF seen /\ ord[i] = self_id THEN [pc |-> "done", result |-> "win", pos |-> i]
  ELSE IF i = Len(ord) THEN [pc |-> "done", result |-> "lose", pos |-> i]
  ELSE [pc |-> LoopEntry(ord, i + 1, self_id), result |-> "none", pos |-> i + 1]

\* compete that falls back to True for the last candidate when the loop ends
AfterFeedbackExhaustWins(seen, ord, i, self_id) ==
  IF seen THEN [pc |-> "done", result |-> Verdict(ord[i] = self_id), pos |-> i]
  ELSE IF i = Len(ord)
       THEN [pc |-> "done", result |-> Verdict(ord[i] = self_id), pos |-> i]
  ELSE [pc |-> LoopEntry(ord, i + 1, self_id), result |-> "none", pos |-> i + 1]

\* compete that gives up when its feedback write raises
AfterFeedbackSetAbort(failed) ==
  IF failed
  THEN [pc |-> "done", result |-> "lose"]
  ELSE [pc |-> "fbwait", result |-> "none"]

\* where compete goes after the set_msg_emoji_like of the feedback emoji: the
\* except branch only logs
AfterFeedbackSet(failed) == [pc |-> "fbwait", result |-> "none"]

\* compete whose pointer skips a position after a check without feedback
AfterFeedbackSkip(seen, ord, i, self_id) ==
  IF seen THEN [pc |-> "done", result |-> Verdict(ord[i] = self_id), pos |-> i]
  ELSE IF i + 1 >= Len(ord) THEN [pc |-> "done", result |-> "lose", pos |-> i]
  ELSE [pc |-> LoopEntry(ord, i + 2, self_id), result |-> "none", pos |-> i + 2]

\* where compete goes after the _has_feedback check of position i
AfterFeedback(seen, ord, i, self_id) ==
  IF seen THEN [pc |-> "done", result |-> Verdict(ord[i] = self_id), pos |-> i]
  ELSE IF i = Len(ord) THEN [pc |-> "done", result |-> "lose", pos |-> i]
  ELSE [pc |-> LoopEntry(ord, i + 1, self_id), result |-> "none", pos |-> i + 1]

\* --------------------------------------------------------------- log entries
FetchOut(users) == IF users = <<>> THEN "empty" ELSE "some"

Logged(p, op, kind, out) == [log EXCEPT ![p] = Append(@, <<op, kind, out>>)]

\* ------------------------------------------------------ full variant, compete
\* Phase 1: the precheck fetch completes
Precheck(p) ==
  /\ variant[p] = "full" /\ pc[p] = "precheck"
  /\ \E resp \in Responses(likes[EMOJI_ID]) :
       LET users == FetchUsers(resp)
           nxt == AfterPrecheck(users)
       IN /\ fresh' = (fresh /\ Named(resp) = likes[EMOJI_ID])
          /\ raised' = [raised EXCEPT ![p] = (resp.status = "err")]
          /\ log' = Logged(p, "fetch", EMOJI_ID, FetchOut(users))
          /\ pc' = [pc EXCEPT ![p] = nxt.pc]
          /\ result' = [result EXCEPT ![p] = nxt.result]
  /\ UNCHANGED <<likes, variant, badEvent, msgTime, order, pos, collected>>
  /\ UNCHANGED fnVars

\* Phase 2: the claim completes; a raising call may or may not have placed
\* the emoji on the server
Claim(p) ==
  /\ variant[p] = "full" /\ pc[p] = "claim"
  /\ \E failed \in BOOLEAN, placed \in BOOLEAN :
       LET nxt == AfterClaim(failed)
       IN /\ ~failed => placed
          /\ likes' = IF placed
                      THEN [likes EXCEPT ![EMOJI_ID] = @ \cup {SelfId[p]}]
                      ELSE likes
          /\ log' = Logged(p, "set", EMOJI_ID, IF failed THEN "err" ELSE "ok")
          /\ pc' = [pc EXCEPT ![p] = nxt.pc]
          /\ result' = [result EXCEPT ![p] = nxt.result]
  /\ raised' = [raised EXCEPT ![p] = FALSE]
  /\ UNCHANGED <<variant, badEvent, msgTime, order, pos, collected, fresh>>
  /\ UNCHANGED fnVars

\* Phase 3: the arbitration window elapses
Wait(p) ==
  /\ variant[p] = "full" /\ pc[p] = "wait"
  /\ pc' = [pc EXCEPT ![p] = "collect"]
  /\ log' = Logged(p, "sleep", WAIT_SEC, "ok")
  /\ raised' = [raised EXCEPT ![p] = FALSE]
  /\ UNCHANGED <<likes, variant, badEvent, msgTime, order, pos, result, collected, fresh>>
  /\ UNCHANGED fnVars

\* Phases 4 and 5: the collect fetch completes, the order is computed once
Collect(p) ==
  /\ variant[p] = "full" /\ pc[p] = "collect"
  /\ \E resp \in Responses(likes[EMOJI_ID]) :
       LET users == FetchUsers(resp)
           ord == DecideOrder(users, msgTime)
           nxt == AfterCollect(users, ord, SelfId[p])
       IN /\ fresh' = (fresh /\ Named(resp) = likes[EMOJI_ID])
          /\ raised' = [raised EXCEPT ![p] = (resp.status = "err")]
          /\ log' = Logged(p, "fetch", EMOJI_ID, FetchOut(users))
          /\ collected' = [collected EXCEPT ![p] = Range(users)]
          /\ order' = [order EXCEPT ![p] = ord]
          /\ pos' = [pos EXCEPT ![p] = nxt.pos]
          /\ pc' = [pc EXCEPT ![p] = nxt.pc]
          /\ result' = [result EXCEPT ![p] = nxt.result]
  /\ UNCHANGED <<likes, variant, badEvent, msgTime>>
  /\ UNCHANGED fnVars

\* Phase 6, own position: the feedback emoji is set, errors are swallowed
FeedbackSet(p) ==
  /\ variant[p] = "full" /\ pc[p] = "fbset"
  /\ \E failed \in BOOLEAN, placed \in BOOLEAN :
       /\ ~failed => placed
       /\ likes' = IF placed
                   THEN [likes EXCEPT ![FEEDBACK_EMOJI_ID] = @ \cup {SelfId[p]}]
                   ELSE likes
       /\ log' = Logged(p, "set", FEEDBACK_EMOJI_ID, IF failed THEN "err" ELSE "ok")
       /\ pc' = [pc EXCEPT ![p] = AfterFeedbackSet(failed).pc]
       /\ result' = [result EXCEPT ![p] = AfterFeedbackSet(failed).result]
  /\ raised' = [raised EXCEPT ![p] = FALSE]
  /\ UNCHANGED <<variant, badEvent, msgTime, order, pos, collected, fresh>>
  /\ UNCHANGED fnVars

\* Phase 6: the feedback window elapses
FeedbackWait(p) ==
  /\ variant[p] = "full" /\ pc[p] = "fbwait"
  /\ pc' = [pc EXCEPT ![p] = "fbcheck"]
  /\ log' = Logged(p, "sleep", FEEDBACK_WAIT_SEC, "ok")
  /\ raised' = [raised EXCEPT ![p] = FALSE]
  /\ UNCHANGED <<likes, variant, badEvent, msgTime, order, pos, result, collected, fresh>>
  /\ UNCHANGED fnVars

\* Phase 6: the feedback check completes; return or advance the pointer
FeedbackCheck(p) ==
  /\ variant[p] = "full" /\ pc[p] = "fbcheck"
  /\ \E resp \in Responses(likes[FEEDBACK_EMOJI_ID]) :
       LET nxt == AfterFeedback(HasFeedback(resp), order[p], pos[p], SelfId[p])
       IN /\ fresh' = (fresh /\ Named(resp) = likes[FEEDBACK_EMOJI_ID])
          /\ raised' = [raised EXCEPT ![p] = (resp.status = "err")]
          /\ log' = Logged(p, "fetch", FEEDBACK_EMOJI_ID,
                           FetchOut(FetchUsers(resp)))
          /\ pos' = [pos EXCEPT ![p] = nxt.pos]
          /\ pc' = [pc EXCEPT ![p] = nxt.pc]
          /\ result' = [result EXCEPT ![p] = nxt.result]
  /\ UNCHANGED <<likes, variant, badEvent, msgTime, order, collected>>
  /\ UNCHANGED fnVars

\* --------------------------------------------------- reduced variant, helpers
\* the inbound event as _parse_event_context sees it: can message_id and
\* self_id be converted by int(), is raw_message a dict, what is raw["time"]
Events ==
  [message_id : {"int", "bad"}, self_id : {"int", "bad"},
   raw : {"dict", "other"},
   time : {"int", "float", "nan", "str", "missing"}]

\* an event with a missing or malformed message_id, self_id or time, or with a
\* raw_message that is not a dict; "nan" is a float that is no number (nan,
\* inf), which json.loads accepts
Malformed(ev) ==
  \/ ev.message_id = "bad" \/ ev.self_id = "bad"
  \/ ev.raw # "dict"
  \/ ev.time \notin {"int", "float"}

\* _parse_event_context: "ctx" when a context is built, "none" for None, and
\* "raise" when int(msg_time) raises, which is outside the try block
LimitParseEventContext(ev) ==
  IF ev.message_id = "bad" \/ ev.self_id = "bad" THEN "none"
  ELSE IF ev.raw # "dict" THEN "none"
  ELSE IF ev.time \notin {"int", "float", "nan"} THEN "none"
  ELSE IF ev.time = "nan" THEN "raise"
  ELSE "ctx"

\* where the reduced compete goes after _parse_event_context
LimitAfterParse(ctx) ==
  CASE ctx = "ctx" -> [pc |-> "precheck", result |-> "none"]
    [] ctx = "none" -> [pc |-> "done", result |-> "lose"]
    [] ctx = "raise" -> [pc |-> "done", result |-> "raise"]

\* _fetch_users of the reduced variant
LimitFetchUsers(resp) ==
  IF resp.status = "err" THEN <<>>
  ELSE IF resp.status \in {"null", "nolist"} THEN <<>>
  ELSE ParseItems(resp.list)

\* _decide without the time slice: index = msg_time % n
LimitDecideNoSlice(users, self_id, msg_time) ==
  LET participants == Sorted(Range(users))
  IN IF participants = <<>> THEN FALSE
     ELSE LET index == msg_time % Len(participants)
          IN participants[index + 1] = self_id

\* _decide that always elects the smallest tinyId
LimitDecideFirst(users, self_id, msg_time) ==
  LET participants == Sorted(Range(users))
  IN IF participants = <<>> THEN FALSE
     ELSE participants[1] = self_id

\* _decide
LimitDecide(users, self_id, msg_time) ==
  LET participants == Sorted(Range(users))
  IN IF participants = <<>> THEN FALSE
     ELSE LET index == (msg_time \div LIMIT_TIME_SLICE) % Len(participants)
          IN participants[index + 1] = self_id

\* where the reduced compete goes after the phase-1 fetch
LimitAfterPrecheck(users) ==
  IF users # <<>>
  THEN [pc |-> "done", result |-> "lose"]
  ELSE [pc |-> "claim", result |-> "none"]

\* where the reduced compete goes after the phase-2 set_msg_emoji_like
LimitAfterClaim(failed) ==
  IF failed
  THEN [pc |-> "done", result |-> "lose"]
  ELSE [pc |-> "wait", result |-> "none"]

\* a reduced compete that wins whenever its own claim is in the collected list
LimitAfterCollectMember(users, self_id, msg_time) ==
  IF users = <<>> THEN "win" ELSE Verdict(self_id \in Range(users))

\* the verdict of the reduced compete after the phase-4 fetch
LimitAfterCollect(users, self_id, msg_time) ==
  IF users = <<>> THEN "win" ELSE Verdict(LimitDecide(users, self_id, msg_time))

\* --------------------------------------------------- reduced variant, compete
\* compete is entered with an event: the context is parsed, and the phase-1
\* fetch is issued only when there is one
LimitParse(p) ==
  /\ variant[p] = "limit" /\ pc[p] = "parse"
  /\ \E ev \in Events :
       LET nxt == LimitAfterParse(LimitParseEventContext(ev))
       IN /\ badEvent' = [badEvent EXCEPT ![p] = Malformed(ev)]
          /\ pc' = [pc EXCEPT ![p] = nxt.pc]
          /\ result' = [result EXCEPT ![p] = nxt.result]
  /\ UNCHANGED <<likes, variant, msgTime, order, pos, collected, log, raised, fresh>>
  /\ UNCHANGED fnVars

LimitPrecheck(p) ==
  /\ variant[p] = "limit" /\ pc[p] = "precheck"
  /\ \E resp \in Responses(likes[LIMIT_EMOJI_ID]) :
       LET users == LimitFetchUsers(resp)
           nxt == LimitAfterPrecheck(users)
       IN /\ fresh' = (fresh /\ Named(resp) = likes[LIMIT_EMOJI_ID])
          /\ raised' = [raised EXCEPT ![p] = (resp.status = "err")]
          /\ log' = Logged(p, "fetch", LIMIT_EMOJI_ID, FetchOut(users))
          /\ pc' = [pc EXCEPT ![p] = nxt.pc]
          /\ result' = [result EXCEPT ![p] = nxt.result]
  /\ UNCHANGED <<likes, variant, badEvent, msgTime, order, pos, collected>>
  /\ UNCHANGED fnVars

LimitClaim(p) ==
  /\ variant[p] = "limit" /\ pc[p] = "claim"
  /\ \E failed \in BOOLEAN, placed \in BOOLEAN :
       LET nxt == LimitAfterClaim(failed)
       IN /\ ~failed => placed
          /\ likes' = IF placed
                      THEN [likes EXCEPT ![LIMIT_EMOJI_ID] = @ \cup {SelfId[p]}]
                      ELSE likes
          /\ log' = Logged(p, "set", LIMIT_EMOJI_ID, IF failed THEN "err" ELSE "ok")
          /\ pc' = [pc EXCEPT ![p] = nxt.pc]
          /\ result' = [result EXCEPT ![p] = nxt.result]
  /\ raised' = [raised EXCEPT ![p] = FALSE]
  /\ UNCHANGED <<variant, badEvent, msgTime, order, pos, collected, fresh>>
  /\ UNCHANGED fnVars

LimitWait(p) ==
  /\ variant[p] = "limit" /\ pc[p] = "wait"
  /\ pc' = [pc EXCEPT ![p] = "collect"]
  /\ log' = Logged(p, "sleep", LIMIT_WAIT_SEC, "ok")
  /\ raised' = [raised EXCEPT ![p] = FALSE]
  /\ UNCHANGED <<likes, variant, badEvent, msgTime, order, pos, result, collected, fresh>>
  /\ UNCHANGED fnVars

LimitCollect(p) ==
  /\ variant[p] = "limit" /\ pc[p] = "collect"
  /\ \E resp \in Responses(likes[LIMIT_EMOJI_ID]) :
       LET users == LimitFetchUsers(resp)
       IN /\ fresh' = (fresh /\ Named(resp) = likes[LIMIT_EMOJI_ID])
          /\ raised' = [raised EXCEPT ![p] = (resp.status = "err")]
          /\ log' = Logged(p, "fetch", LIMIT_EMOJI_ID, FetchOut(users))
          /\ collected' = [collected EXCEPT ![p] = Range(users)]
          /\ pc' = [pc EXCEPT ![p] = "done"]
          /\ result' = [result EXCEPT ![p] =
                          LimitAfterCollect(users, SelfId[p], msgTime)]
  /\ UNCHANGED <<likes, variant, badEvent, msgTime, order, pos>>
  /\ UNCHANGED fnVars

\* ------------------------------------------------------------ environment
\* a participant outside the model places its claim of kind k
OtherLike(k) ==
  /\ \E o \in Others :
       /\ o \notin likes[k]
       /\ likes' = [likes EXCEPT ![k] = @ \cup {o}]
  /\ UNCHANGED <<variant, badEvent, msgTime, pc, order, pos, result, collected, log, raised, fresh>>
  /\ UNCHANGED fnVars

\* ------------------------------------------------------------ specification
\* the function driver is idle while the processes run
FnIdle ==
  /\ fnUsers = <<>> /\ fnUsers2 = <<>> /\ fnTime = 0 /\ fnSelf = 0
  /\ fnCalls = {} /\ fnOrder = <<>> /\ fnOrder2 = <<>>
  /\ fnWin = FALSE /\ fnWin2 = FALSE
  /\ fnVerdict = "none"

Init ==
  /\ likes = [k \in Kinds |-> {}]
  /\ variant \in [Procs -> {"full", "limit"}]
  /\ badEvent = [p \in Procs |-> FALSE]
  /\ msgTime \in MsgTimes
  /\ pc = [p \in Procs |-> IF variant[p] = "full" THEN "precheck" ELSE "parse"]
  /\ order = [p \in Procs |-> <<>>]
  /\ pos = [p \in Procs |-> 0]
  /\ result = [p \in Procs |-> "none"]
  /\ collected = [p \in Procs |-> {}]
  /\ log = [p \in Procs |-> <<>>]
  /\ raised = [p \in Procs |-> FALSE]
  /\ fresh = TRUE
  /\ FnIdle

Next ==
  \/ \E k \in OtherKinds : OtherLike(k)
  \/ \E p \in Procs : Precheck(p)
  \/ \E p \in Procs : Claim(p)
  \/ \E p \in Procs : Wait(p)
  \/ \E p \in Procs : Collect(p)
  \/ \E p \in Procs : FeedbackSet(p)
  \/ \E p \in Procs : FeedbackWait(p)
  \/ \E p \in Procs : FeedbackCheck(p)
  \/ \E p \in Procs : LimitParse(p)
  \/ \E p \in Procs : LimitPrecheck(p)
  \/ \E p \in Procs : LimitClaim(p)
  \/ \E p \in Procs : LimitWait(p)
  \/ \E p \in Procs : LimitCollect(p)

Spec == Init /\ [][Next]_vars

\* the steps of one attempt
Step(p) ==
  \/ Precheck(p) \/ Claim(p) \/ Wait(p) \/ Collect(p)
  \/ FeedbackSet(p) \/ FeedbackWait(p) \/ FeedbackCheck(p)
  \/ LimitParse(p) \/ LimitPrecheck(p) \/ LimitClaim(p) \/ LimitWait(p)
  \/ LimitCollect(p)

\* every awaited channel call returns or raises and every sleep elapses, and
\* the event loop then resumes the attempt
SpecLive == Init /\ [][Next]_vars /\ \A p \in Procs : WF_vars(Step(p))

TypeOK ==
  /\ likes \in [Kinds -> SUBSET Ids]
  /\ pc \in [Procs -> {"parse", "precheck", "claim", "wait", "collect",
                       "fbset", "fbwait", "fbcheck", "done"}]
  /\ result \in [Procs -> {"none", "win", "lose", "raise"}]
  /\ \A p \in Procs : (pc[p] = "done") <=> (result[p] # "none")

\* ----------------------------------------------- specification, function driver
\* _decide_order and _decide applied to every pair of lists, timestamp and
\* self_id of the bounded input sets
ProcsIdle ==
  /\ likes = [k \in Kinds |-> {}]
  /\ variant = [p \in Procs |-> "full"]
  /\ badEvent = [p \in Procs |-> FALSE]
  /\ msgTime = 0
  /\ pc = [p \in Procs |-> "precheck"]
  /\ order = [p \in Procs |-> <<>>]
  /\ pos = [p \in Procs |-> 0]
  /\ result = [p \in Procs |-> "none"]
  /\ collected = [p \in Procs |-> {}]
  /\ log = [p \in Procs |-> <<>>]
  /\ raised = [p \in Procs |-> FALSE]
  /\ fresh = TRUE

FnInit ==
  /\ ProcsIdle
  /\ fnUsers \in Lists(FnIds, MaxUsers)
  /\ fnUsers2 \in Lists(FnIds, MaxUsers)
  /\ fnTime \in FnTimes
  /\ fnSelf \in FnIds
  /\ fnCalls = {}
  /\ fnOrder = <<>> /\ fnOrder2 = <<>>
  /\ fnWin = FALSE /\ fnWin2 = FALSE
  /\ fnVerdict = "none"

FnDecideOrder ==
  /\ "decide_order" \notin fnCalls
  /\ fnCalls' = fnCalls \cup {"decide_order"}
  /\ fnOrder' = DecideOrder(fnUsers, fnTime)
  /\ fnOrder2' = DecideOrder(fnUsers2, fnTime)
  /\ UNCHANGED <<fnUsers, fnUsers2, fnTime, fnSelf, fnWin, fnWin2, fnVerdict>>
  /\ UNCHANGED procVars

FnDecide ==
  /\ "decide" \notin fnCalls
  /\ fnCalls' = fnCalls \cup {"decide"}
  /\ fnWin' = LimitDecide(fnUsers, fnSelf, fnTime)
  /\ fnWin2' = LimitDecide(fnUsers2, fnSelf, fnTime)
  /\ fnVerdict' = LimitAfterCollect(fnUsers, fnSelf, fnTime)
  /\ UNCHANGED <<fnUsers, fnUsers2, fnTime, fnSelf, fnOrder, fnOrder2>>
  /\ UNCHANGED procVars

FnNext ==
  \/ FnDecideOrder
  \/ FnDecide

SpecFn == FnInit /\ [][FnNext]_vars

\* ======================================================================
\* Properties
\* ======================================================================
PrimaryKind(p) == IF variant[p] = "full" THEN EMOJI_ID ELSE LIMIT_EMOJI_ID

\* the entries of p's log for one operation on one emoji (or sleep duration)
Entries(p, op, kind) == SelectSeq(log[p], LAMBDA e : e[1] = op /\ e[2] = kind)

\* the outcomes of p's feedback checks, position by position
FbChecks(p) == Entries(p, "fetch", FEEDBACK_EMOJI_ID)

\* number of elements of S below x
Below(S, x) == Cardinality({y \in S : y < x})

\* the ranking `ord` is the cyclic rotation of the ascending order of S that
\* starts at index `start` (0-based)
IsRotationOf(ord, S, start) ==
  /\ Len(ord) = Cardinality(S)
  /\ Range(ord) = S
  /\ \A i \in 1..Len(ord) : Below(S, ord[i]) = (start + (i - 1)) % Cardinality(S)

\* C6: for a non-empty list P and a timestamp T, _decide_order(P, T) is the
\* cyclic rotation of sorted(unique(P)) that starts at index (T div 60) mod n:
\* it has length n and holds every distinct identifier exactly once; for
\* P = {10, 20, 30} and T = 125 it is [30, 10, 20]; for an empty P it is empty.
C6_RankingIsRotation ==
  "decide_order" \in fnCalls =>
    LET S == Range(fnUsers)
        n == Cardinality(S)
    IN /\ S = {} => fnOrder = <<>>
       /\ S # {} => IsRotationOf(fnOrder, S, (fnTime \div 60) % n)
       /\ (S = {10, 20, 30} /\ fnTime = 125) => fnOrder = <<30, 10, 20>>

C6_Witness ==
  /\ "decide_order" \in fnCalls
  /\ fnUsers = <<20, 30, 10>>
  /\ fnTime = 125
  /\ fnOrder = <<30, 10, 20>>

\* C7: the ranking depends only on the set of participants and the
\* timestamp: two lists with the same identifiers, in another order or with
\* other multiplicities, give the same ranking (and the same _decide verdict)
\* for the same T.
C7_RankingDependsOnSetOnly ==
  Range(fnUsers) = Range(fnUsers2) =>
    /\ "decide_order" \in fnCalls => fnOrder = fnOrder2
    /\ "decide" \in fnCalls => fnWin = fnWin2

C7_Witness ==
  /\ fnCalls = {"decide_order", "decide"}
  /\ fnUsers = <<20, 10, 20>>
  /\ fnUsers2 = <<10, 20>>
  /\ fnTime = 60
  /\ fnSelf = 20
  /\ fnOrder = <<20, 10>> /\ fnOrder2 = <<20, 10>>
  /\ fnWin /\ fnWin2

\* has p put any emoji on the message
Placed(p) == \E k \in Kinds : SelfId[p] \in likes[k]

\* C2: in both variants, when the phase-1 fetch returns a non-empty list,
\* compete returns lose at once: the fetch is the only channel call of the
\* attempt (no claim, no feedback, no later fetch, no sleep) and the process
\* has put nothing on the message.
C2_PrecheckNonEmptyLoses ==
  \A p \in Procs :
    (Len(log[p]) >= 1 /\ log[p][1] = <<"fetch", PrimaryKind(p), "some">>) =>
      /\ pc[p] = "done"
      /\ result[p] = "lose"
      /\ Len(log[p]) = 1
      /\ ~Placed(p)

C2_Witness ==
  \E p, q \in Procs :
    /\ variant[p] = "full" /\ variant[q] = "limit"
    /\ log[p] = <<<<"fetch", EMOJI_ID, "some">>>>
    /\ log[q] = <<<<"fetch", LIMIT_EMOJI_ID, "some">>>>
    /\ result[p] = "lose" /\ result[q] = "lose"

\* C3: in both variants, when the phase-2 claim raises, compete returns lose
\* for this attempt: the raising claim is the last channel call of the
\* attempt (no retry, no wait, no collect fetch, no feedback write).
C3_ClaimErrorLoses ==
  \A p \in Procs :
    \A i \in 1..Len(log[p]) :
      log[p][i] = <<"set", PrimaryKind(p), "err">> =>
        /\ i = 2
        /\ Len(log[p]) = 2
        /\ pc[p] = "done"
        /\ result[p] = "lose"

C3_Witness ==
  \E p, q \in Procs :
    /\ variant[p] = "full" /\ variant[q] = "limit"
    /\ log[p] = <<<<"fetch", EMOJI_ID, "empty">>, <<"set", EMOJI_ID, "err">>>>
    /\ log[q] = <<<<"fetch", LIMIT_EMOJI_ID, "empty">>,
                  <<"set", LIMIT_EMOJI_ID, "err">>>>
    /\ result[p] = "lose" /\ result[q] = "lose"

\* p's precheck was empty, its claim succeeded, and its collect fetch was empty
CollectedEmpty(p) ==
  /\ Len(log[p]) >= 4
  /\ log[p][1] = <<"fetch", PrimaryKind(p), "empty">>
  /\ log[p][2] = <<"set", PrimaryKind(p), "ok">>
  /\ log[p][4] = <<"fetch", PrimaryKind(p), "empty">>

\* C4: in both variants, when the precheck was empty, the claim succeeded and
\* the phase-4 fetch returns an empty list, compete returns win whatever
\* selfId is, so several processes that all collect an empty list all win.
C4_EmptyCollectWins ==
  \A p \in Procs :
    CollectedEmpty(p) =>
      /\ pc[p] = "done"
      /\ result[p] = "win"
      /\ Len(log[p]) = 4

C4_Witness ==
  /\ \E p, q \in Procs : variant[p] = "full" /\ variant[q] = "limit"
  /\ \A p \in Procs : CollectedEmpty(p) /\ result[p] = "win"

\* C5: an error raised by a fetch is never propagated and is handled as an
\* empty result: compete sees an empty list, a failing precheck goes on to
\* the claim, a failing collect yields win, and a failing feedback check
\* counts as not observed and advances the backup loop (to the next position,
\* or to lose after the last one).
C5_FetchErrorIsEmpty ==
  \A p \in Procs :
    raised[p] =>
      LET n == Len(log[p])
          last == log[p][n]
      IN /\ n >= 1
         /\ last[1] = "fetch" /\ last[3] = "empty"
         /\ n = 1 => (pc[p] = "claim" /\ result[p] = "none")
         /\ n = 4 => (pc[p] = "done" /\ result[p] = "win")
         /\ n > 4 =>
              /\ variant[p] = "full" /\ last[2] = FEEDBACK_EMOJI_ID
              /\ \/ /\ Len(FbChecks(p)) < Len(order[p])
                    /\ pos[p] = Len(FbChecks(p)) + 1
                    /\ pc[p] = LoopEntry(order[p], pos[p], SelfId[p])
                    /\ result[p] = "none"
                 \/ /\ Len(FbChecks(p)) = Len(order[p])
                    /\ pos[p] = Len(order[p])
                    /\ pc[p] = "done" /\ result[p] = "lose"

C5_Witness ==
  \E p, q \in Procs :
    /\ raised[p] /\ Len(log[p]) > 4 /\ pc[p] \in {"fbset", "fbwait"}
    /\ raised[q] /\ Len(log[q]) = 4 /\ result[q] = "win"

\* C8: in both variants, when the collected participant set has exactly one
\* distinct identifier, compete returns win iff selfId is that identifier,
\* for every timestamp; the verdict comes right after the collect fetch, with
\* no feedback write, feedback wait or feedback fetch.
C8_SoleParticipantWins ==
  \A p \in Procs :
    Cardinality(collected[p]) = 1 =>
      /\ pc[p] = "done"
      /\ (result[p] = "win") <=> (collected[p] = {SelfId[p]})
      /\ result[p] \in {"win", "lose"}
      /\ Len(log[p]) = 4
      /\ Entries(p, "set", FEEDBACK_EMOJI_ID) = <<>>
      /\ Entries(p, "sleep", FEEDBACK_WAIT_SEC) = <<>>
      /\ FbChecks(p) = <<>>

C8_Witness ==
  \E p, q \in Procs :
    /\ variant[p] = "full" /\ variant[q] = "limit"
    /\ collected[p] = {SelfId[p]} /\ result[p] = "win"
    /\ Cardinality(collected[q]) = 1 /\ SelfId[q] \notin collected[q]
    /\ result[q] = "lose"

FullProcs == {p \in Procs : variant[p] = "full"}

\* C9: full variant, ranking with at least two entries: a process that
\* observes feedback at the check of position 0 returns there, with win iff
\* its selfId is the position-0 candidate and lose otherwise, after exactly
\* one feedback wait and one feedback fetch (no second loop iteration).
C9_FeedbackAtFirstPosition ==
  \A p \in FullProcs :
    (Len(order[p]) >= 2 /\ FbChecks(p) # <<>> /\ FbChecks(p)[1][3] = "some") =>
      /\ pc[p] = "done"
      /\ pos[p] = 1
      /\ result[p] = Verdict(order[p][1] = SelfId[p])
      /\ Len(FbChecks(p)) = 1
      /\ Len(Entries(p, "sleep", FEEDBACK_WAIT_SEC)) = 1

C9_Witness ==
  /\ FullProcs = Procs
  /\ \A p \in Procs :
       /\ order[p] = <<20, 30, 10>>
       /\ FbChecks(p) = <<<<"fetch", FEEDBACK_EMOJI_ID, "some">>>>
       /\ pc[p] = "done"
  /\ Entries(2, "set", FEEDBACK_EMOJI_ID) = <<<<"set", FEEDBACK_EMOJI_ID, "ok">>>>
  /\ result[2] = "win"
  /\ result[1] = "lose"

\* p ran its backup loop to the end of the attempt without observing feedback
NeverObserved(p) ==
  /\ Len(order[p]) >= 2
  /\ pc[p] = "done"
  /\ \A i \in 1..Len(FbChecks(p)) : FbChecks(p)[i][3] = "empty"

\* C10: full variant, ranking with n >= 2 entries: an attempt that observes
\* feedback at none of its checks walks the whole ranking, with exactly n
\* feedback waits and n feedback fetches, and returns lose; when this is so
\* for every participant there is no winner.
C10_ExhaustedLoopLoses ==
  /\ \A p \in FullProcs :
       NeverObserved(p) =>
         /\ result[p] = "lose"
         /\ pos[p] = Len(order[p])
         /\ Len(FbChecks(p)) = Len(order[p])
         /\ Len(Entries(p, "sleep", FEEDBACK_WAIT_SEC)) = Len(order[p])
  /\ (FullProcs = Procs /\ \A p \in Procs : NeverObserved(p)) =>
       \A p \in Procs : result[p] # "win"

C10_Witness ==
  /\ FullProcs = Procs
  /\ \A p \in Procs :
       /\ order[p] = <<30, 10, 20>>
       /\ NeverObserved(p)
       /\ Len(FbChecks(p)) = 3
       /\ result[p] = "lose"

\* no channel call has raised, every fetch has returned the whole server-side
\* list, and only the modelled processes have claimed
NormalRun ==
  /\ fresh
  /\ \A p \in Procs : \A i \in 1..Len(log[p]) : log[p][i][3] # "err"
  /\ \A k \in Kinds : likes[k] \cap Others = {}

\* p has reached phase 5: its collect fetch was not empty
ReachedPhase5(p) == collected[p] # {}

\* C1 as stated: full variant, under normal propagation delay all processes
\* that reach phase 5 compute the same ranking and resolve the same winner, so
\* at most one process returns win.
C1_OneWinnerUnderNormalDelay ==
  NormalRun =>
    /\ \A p, q \in FullProcs :
         (ReachedPhase5(p) /\ ReachedPhase5(q)) => order[p] = order[q]
    /\ Cardinality({p \in FullProcs : result[p] = "win"}) <= 1

\* C1 as amended: full variant, the processes that reach phase 5 with the same
\* collected participant set compute the same ranking, and of those that
\* resolve at the same position of it at most one returns win.
C1_SameSetSameRanking ==
  \A p, q \in FullProcs :
    (p # q /\ ReachedPhase5(p) /\ collected[p] = collected[q]) =>
      /\ order[p] = order[q]
      /\ (pc[p] = "done" /\ pc[q] = "done" /\ pos[p] = pos[q]) =>
           ~(result[p] = "win" /\ result[q] = "win")

C1_Witness ==
  \E p, q \in FullProcs :
    /\ p # q
    /\ Cardinality(collected[p]) >= 2
    /\ collected[p] = collected[q]
    /\ pc[p] = "done" /\ pc[q] = "done"
    /\ pos[p] = 2 /\ pos[q] = 2
    /\ result[p] = "win" /\ result[q] = "lose"

\* the element of S with exactly k elements of S below it
AtRank(S, k) == CHOOSE x \in S : Below(S, x) = k

\* C11: reduced variant: on a non-empty collected list compete returns win iff
\* selfId is P[(msgTime div 60) mod n], P the sorted distinct identifiers and
\* n their number; for P = {10, 20, 30} and msgTime = 125 the process with
\* selfId 30 wins and the process with selfId 10 loses.
C11_ReducedElectsIndexed ==
  ("decide" \in fnCalls /\ fnUsers # <<>>) =>
    LET S == Range(fnUsers)
        n == Cardinality(S)
    IN /\ fnVerdict = Verdict(fnSelf = AtRank(S, (fnTime \div 60) % n))
       /\ fnWin = (fnVerdict = "win")
       /\ (S = {10, 20, 30} /\ fnTime = 125 /\ fnSelf = 30) => fnVerdict = "win"
       /\ (S = {10, 20, 30} /\ fnTime = 125 /\ fnSelf = 10) => fnVerdict = "lose"

C11_Witness ==
  /\ "decide" \in fnCalls
  /\ fnUsers = <<10, 30, 20>>
  /\ fnTime = 125
  /\ fnSelf = 30
  /\ fnVerdict = "win"

\* C18: for every list, timestamp and selfId, _decide(users, selfId, T) is
\* TRUE exactly when the ranking _decide_order(users, T) has a first entry and
\* that entry is selfId: the reduced variant elects the position-0 candidate
\* of the full variant.
C18_ReducedElectsFirstOfRanking ==
  fnCalls = {"decide_order", "decide"} =>
    fnWin = (fnOrder # <<>> /\ fnOrder[1] = fnSelf)

C18_Witness ==
  /\ fnCalls = {"decide_order", "decide"}
  /\ fnUsers = <<30, 10, 30>>
  /\ fnTime = 60
  /\ fnSelf = 30
  /\ fnOrder = <<30, 10>>
  /\ fnWin

\* how far the attempt of p has come: the phases in order, then the backup
\* positions in order, each with its write, its wait and its check
PhaseRank(p) ==
  CASE pc[p] = "parse" -> 0
    [] pc[p] = "precheck" -> 1
    [] pc[p] = "claim" -> 2
    [] pc[p] = "wait" -> 3
    [] pc[p] = "collect" -> 4
    [] pc[p] = "fbset" -> 3 * pos[p] + 2
    [] pc[p] = "fbwait" -> 3 * pos[p] + 3
    [] pc[p] = "fbcheck" -> 3 * pos[p] + 4
    [] pc[p] = "done" -> 3 * Cardinality(Ids) + 5

\* a step of p's attempt takes it strictly forward
Forward(p) ==
  \/ (pc[p]' = pc[p] /\ pos[p]' = pos[p] /\ log[p]' = log[p])
  \/ PhaseRank(p)' > PhaseRank(p)

\* no phase of p's attempt has run twice, the backup loop has run at most
\* once per entry of the ranking, and a finished attempt has a boolean verdict
NoRetry(p) ==
  /\ Len(Entries(p, "fetch", PrimaryKind(p))) <= 2
  /\ Len(Entries(p, "set", PrimaryKind(p))) <= 1
  /\ Len(Entries(p, "sleep", WAIT_SEC)) + Len(Entries(p, "sleep", LIMIT_WAIT_SEC)) <= 1
  /\ Len(FbChecks(p)) <= Len(order[p])
  /\ Len(Entries(p, "sleep", FEEDBACK_WAIT_SEC)) <= Len(order[p])
  /\ Len(Entries(p, "set", FEEDBACK_EMOJI_ID)) <= 1
  /\ pc[p] = "done" <=> result[p] # "none"
  /\ log[p] # <<>> => result[p] \in {"none", "win", "lose"}

AllDone == \A p \in Procs : pc[p] = "done"

\* C12: every attempt terminates, and with a boolean verdict whatever the
\* channel answers it (calls that return, raise, give empty or non-empty lists): the
\* phases run strictly forward, none is retried, and the full variant makes
\* at most n backup iterations for a ranking of n entries.
C12_AlwaysTerminates ==
  /\ [][\A p \in Procs : Forward(p)]_vars
  /\ [](\A p \in Procs : NoRetry(p))
  /\ <>AllDone

C12_Witness ==
  /\ AllDone
  /\ \E p, q \in Procs :
       /\ variant[p] = "full" /\ Len(order[p]) = 2 /\ Len(FbChecks(p)) = 2
       /\ result[p] = "lose"
       /\ variant[q] = "limit" /\ raised[q] /\ result[q] = "win"

\* C13: reduced variant: when the event has a missing or malformed message
\* identifier, self identifier or time field, or a raw message that is not a
\* mapping, compete returns lose without any operation on the annotation
\* channel and without raising.
C13_MalformedEventLoses ==
  \A p \in Procs :
    badEvent[p] =>
      /\ pc[p] = "done" /\ result[p] = "lose"
      /\ log[p] = <<>> /\ ~Placed(p)

\* the 1-based position of x in the sequence s, 0 when x is not in it
IndexOf(s, x) ==
  IF x \in Range(s) THEN CHOOSE i \in 1..Len(s) : s[i] = x ELSE 0

\* p's feedback write has raised
FeedbackWriteFailed(p) == <<"set", FEEDBACK_EMOJI_ID, "err">> \in Range(log[p])

\* C14: full variant: an error of the feedback write at the process's own
\* ranking position is swallowed: the process still performs the feedback
\* wait and the feedback check of that position, wins at that position if
\* feedback is observed there, and otherwise goes on to the next positions
\* (or loses when its own position was the last one).
C14_FeedbackWriteErrorSwallowed ==
  \A p \in Procs :
    FeedbackWriteFailed(p) =>
      LET w == IndexOf(log[p], <<"set", FEEDBACK_EMOJI_ID, "err">>)
          k == IndexOf(order[p], SelfId[p])
          n == Len(log[p])
      IN /\ n = w => (pc[p] = "fbwait" /\ pos[p] = k)
         /\ n > w => log[p][w + 1] = <<"sleep", FEEDBACK_WAIT_SEC, "ok">>
         /\ n = w + 1 => (pc[p] = "fbcheck" /\ pos[p] = k)
         /\ n > w + 1 =>
              /\ log[p][w + 2][1] = "fetch" /\ log[p][w + 2][2] = FEEDBACK_EMOJI_ID
              /\ log[p][w + 2][3] = "some" =>
                   (pc[p] = "done" /\ result[p] = "win" /\ pos[p] = k)
              /\ (log[p][w + 2][3] = "empty" /\ k < Len(order[p])) =>
                   (pos[p] > k /\ (n = w + 2 => pc[p] = "fbwait"))
              /\ (log[p][w + 2][3] = "empty" /\ k = Len(order[p])) =>
                   (pc[p] = "done" /\ result[p] = "lose")

C14_Witness ==
  \E p \in Procs :
    /\ FeedbackWriteFailed(p) /\ pc[p] = "done" /\ result[p] = "win"
    /\ pos[p] = IndexOf(order[p], SelfId[p]) /\ SelfId[p] \notin likes[FEEDBACK_EMOJI_ID]

\* the emoji ids the variant of p reads and writes
KindsOf(p) ==
  IF variant[p] = "full" THEN {EMOJI_ID, FEEDBACK_EMOJI_ID} ELSE {LIMIT_EMOJI_ID}

\* C15: the two variants use disjoint annotation kinds (reduced: 282; full:
\* 289 and 124), so when processes of both variants compete on the same
\* message, nothing written by one variant appears in what the other reads:
\* not in its precheck, not in its collected participant set, not in its
\* feedback checks.
C15_VariantsDoNotMix ==
  /\ LIMIT_EMOJI_ID \notin {EMOJI_ID, FEEDBACK_EMOJI_ID}
  /\ \A p, q \in Procs :
       variant[p] # variant[q] =>
         /\ \A k \in KindsOf(p) : SelfId[q] \notin likes[k]
         /\ SelfId[q] \notin collected[p]
         /\ \A i \in 1..Len(log[p]) :
              (log[p][i][1] = "fetch" /\ log[p][i][3] = "some") =>
                \/ log[p][i][2] = PrimaryKind(p)
                     /\ likes[PrimaryKind(p)] \cap (Others \cup {SelfId[p]}) # {}
                \/ log[p][i][2] = FEEDBACK_EMOJI_ID
                     /\ SelfId[p] \in likes[FEEDBACK_EMOJI_ID]
         /\ (log[p] # <<>> /\ log[p][1][3] = "some") =>
              likes[PrimaryKind(p)] \cap Others # {}

C15_Witness ==
  /\ variant[1] = "full" /\ variant[2] = "limit"
  /\ SelfId[1] \in likes[EMOJI_ID] /\ SelfId[2] \in likes[LIMIT_EMOJI_ID]
  /\ collected[1] = {SelfId[1]} /\ collected[2] = {SelfId[2]}
  /\ result[1] = "win" /\ result[2] = "win"

\* p saw no feedback at its first k checks and saw it at check k + 1
FirstSeenAt(p, k) ==
  /\ Len(FbChecks(p)) = k + 1
  /\ \A i \in 1..k : FbChecks(p)[i][3] = "empty"
  /\ FbChecks(p)[k + 1][3] = "some"

\* the ranking of p once computed stays, and the pointer moves one position
\* at a time
PointerOnlyAdvances(p) ==
  /\ order[p] # <<>> => order[p]' = order[p]
  /\ pos[p]' \in {pos[p], pos[p] + 1}

\* C16: full variant, deterministic backup: with a ranking of n >= 2 entries,
\* when no feedback is seen at the checks of positions 0..k-1 and feedback is
\* seen at the check of position k, the attempt ends at position k, with win
\* for the candidate of position k and lose for everyone else; of the
\* processes with a common ranking that all see it at position k exactly the
\* candidate wins. The ranking is computed once and only the pointer advances.
C16_DeterministicBackup ==
  /\ [](\A p \in FullProcs : \A k \in 0..(Cardinality(Ids) - 1) :
          (Len(order[p]) >= 2 /\ FirstSeenAt(p, k)) =>
            /\ pc[p] = "done" /\ pos[p] = k + 1
            /\ result[p] = Verdict(order[p][k + 1] = SelfId[p])
            /\ \A q \in FullProcs :
                 (order[q] = order[p] /\ FirstSeenAt(q, k) /\ result[q] = "win") =>
                   (q = p <=> result[p] = "win"))
  /\ [][\A p \in Procs : PointerOnlyAdvances(p)]_vars

C16_Witness ==
  /\ order[1] = <<30, 10, 20>> /\ order[2] = order[1]
  /\ FirstSeenAt(1, 1) /\ FirstSeenAt(2, 1)
  /\ result[1] = "win" /\ result[2] = "lose"
  /\ pos[1] = 2 /\ pos[2] = 2

LimitProcs == {p \in Procs : variant[p] = "limit"}

\* the participant the reduced variant selects from the set S
Selected(S) == AtRank(S, (msgTime \div LIMIT_TIME_SLICE) % Cardinality(S))

\* C17: reduced variant, processes competing on the same message with the
\* same msgTime: among the processes whose collect fetch returned the same
\* non-empty participant set at most one returns win, and it is the one whose
\* selfId is the selected participant; a process whose selfId is not in the
\* non-empty set it collected returns lose.
C17_ReducedSameSetOneWinner ==
  \A p \in LimitProcs :
    collected[p] # {} =>
      /\ pc[p] = "done"
      /\ result[p] = Verdict(SelfId[p] = Selected(collected[p]))
      /\ SelfId[p] \notin collected[p] => result[p] = "lose"
      /\ \A q \in LimitProcs :
           (q # p /\ collected[q] = collected[p]) =>
             ~(result[p] = "win" /\ result[q] = "win")

C17_Witness ==
  /\ LimitProcs = Procs /\ msgTime = 0
  /\ collected[1] = {20, 30} /\ collected[2] = {20, 30}
  /\ result[1] = "lose" /\ result[2] = "win"

\* the channel writes of p, in order
Writes(p) == SelectSeq(log[p], LAMBDA e : e[1] = "set")

\* the feedback checks p had completed when it wrote its feedback
ChecksBeforeFeedbackWrite(p) ==
  LET isWrite(i) == log[p][i][1] = "set" /\ log[p][i][2] = FEEDBACK_EMOJI_ID
      w == CHOOSE i \in 1..Len(log[p]) : isWrite(i)
  IN Cardinality({i \in 1..(w - 1) :
                    log[p][i][1] = "fetch" /\ log[p][i][2] = FEEDBACK_EMOJI_ID})

\* the writes of one full-variant attempt
FullWrites(p) ==
  /\ Len(Writes(p)) <= 2
  /\ Len(Writes(p)) >= 1 => Writes(p)[1][2] = EMOJI_ID
  /\ Len(Writes(p)) = 2 =>
       /\ Writes(p)[2][2] = FEEDBACK_EMOJI_ID
       /\ Writes(p)[1][3] = "ok"
       /\ Cardinality(collected[p]) >= 2 /\ SelfId[p] \in collected[p]
       /\ ChecksBeforeFeedbackWrite(p) + 1 = IndexOf(order[p], SelfId[p])
  /\ \A i \in 1..Len(Writes(p)) :
       Writes(p)[i][3] = "ok" => SelfId[p] \in likes[Writes(p)[i][2]]

\* C19: in a run of one full-variant attempt the channel writes are at most
\* one primary claim write, then at most one feedback write; the feedback
\* write happens only after a successful claim and a collect that returned
\* at least two distinct participants including selfId, and only at the loop
\* position whose candidate is selfId. Every write sets the emoji and nothing
\* removes one, so a claim or feedback once placed stays on the message.
C19_WritesOfOneAttempt ==
  /\ [](\A p \in FullProcs : FullWrites(p))
  /\ [][\A k \in Kinds : likes[k] \subseteq likes[k]']_vars

C19_Witness ==
  \E p \in FullProcs :
    /\ pc[p] = "done" /\ Len(Writes(p)) = 2
    /\ IndexOf(order[p], SelfId[p]) = 2 /\ result[p] = "lose"
    /\ SelfId[p] \in likes[EMOJI_ID] /\ SelfId[p] \in likes[FEEDBACK_EMOJI_ID]

\* C20: full variant: an attempt that collected two or more distinct
\* participants returns win only if selfId is in the collected set and the
\* attempt observed feedback at the check of its own ranking position, after
\* having attempted its own feedback write and with no feedback observed at
\* any earlier position; the feedback it observes may come from any process.
C20_WinNeedsFeedbackAtOwnPosition ==
  \A p \in FullProcs :
    (result[p] = "win" /\ Cardinality(collected[p]) >= 2) =>
      LET k == IndexOf(order[p], SelfId[p])
      IN /\ SelfId[p] \in collected[p]
         /\ k >= 1 /\ pos[p] = k
         /\ FirstSeenAt(p, k - 1)
         /\ Len(Writes(p)) = 2 /\ Writes(p)[2][2] = FEEDBACK_EMOJI_ID
         /\ ChecksBeforeFeedbackWrite(p) = k - 1

C20_Witness ==
  \E p \in FullProcs :
    /\ result[p] = "win" /\ Cardinality(collected[p]) = 3
    /\ IndexOf(order[p], SelfId[p]) = 2
    /\ Writes(p)[2] = <<"set", FEEDBACK_EMOJI_ID, "err">>
    /\ likes[FEEDBACK_EMOJI_ID] = Range(SelfId) \ {SelfId[p]}

====
